---- MODULE Spec2Model ----
(***************************************************************************)
(* A model of src/app.py, the Streamlit script "NIFTY 50 ARIMA Analyzer".  *)
(*                                                                         *)
(* The script is re-executed top to bottom on every user interaction.  One *)
(* execution fetches the price table of the selected company through the   *)
(* memoized get_live_data, draws the historical chart, fits an ARIMA model *)
(* and shows a 15-day forecast table, and, when the report button was      *)
(* pressed, assembles a PDF with create_pdf.                               *)
(*                                                                         *)
(* Dates are day ordinals (days since 2024-01-01); prices are integer      *)
(* hundredths of a rupee.  What yfinance, statsmodels, plotly and          *)
(* reportlab return is outside the script and is a nondeterministic choice *)
(* among the outcomes the script distinguishes.                            *)
(***************************************************************************)
EXTENDS Integers, Sequences, FiniteSets, TLC

VARIABLES
    selected_name,  \* sidebar: index of the chosen company in nifty50_dict
    period,         \* sidebar: history period
    model_choice,   \* sidebar: label of the chosen ARIMA order
    clicked,        \* this execution was triggered by the report button
    cache,          \* st.cache_data store of get_live_data: key -> table
    downloads,      \* number of yf.download calls made so far
    runs,           \* number of script executions started so far
    pc,             \* position of the running script / of create_pdf
    df,             \* table returned by get_live_data in this execution
    fig,            \* the plotly figure, or NoFig
    fit,            \* how far the ARIMA stage got in this execution
    forecast_df,    \* the forecast table (a sequence of rows)
    page,           \* what this execution has put on the Streamlit page
    crashed,        \* an exception escaped the script
    canvas,         \* create_pdf: the reportlab canvas
    y,              \* create_pdf: vertical cursor
    it,             \* create_pdf: number of rows iterrows() has yielded
    pdf_data        \* buffer returned by create_pdf, or NoPdf

vars == << selected_name, period, model_choice, clicked, cache, downloads,
           runs, pc, df, fig, fit, forecast_df, page, crashed, canvas, y,
           it, pdf_data >>

-----------------------------------------------------------------------------
(* Bounds of the model *)

\* companies of nifty50_dict the user chooses among
NumTickers == 2
\* most rows a fetched price table has
MaxLen == 6
\* most script executions in one session
MaxRuns == 4
\* most rows of a forecast table handed to create_pdf on its own
MaxRows == 66
\* most calendar days between consecutive rows of a fetched table
DaySpan == 1

-----------------------------------------------------------------------------
(* Program constants *)

forecast_steps == 15
\* create_pdf layout
TableTop == 330
RowGap == 20
RowStep == 15
MinMargin == 50
TopMargin == 750

\* the leading entries of nifty50_dict
nifty50_dict ==
    << <<"Reliance Industries", "RELIANCE.NS">>, <<"TCS", "TCS.NS">>,
       <<"HDFC Bank", "HDFCBANK.NS">>, <<"ICICI Bank", "ICICIBANK.NS">> >>

Companies == 1..NumTickers
Periods == {"6mo", "1y", "2y"}
ModelChoices == {"ARIMA(1,1,1)", "ARIMA(2,1,2)"}

ticker_of(name) == nifty50_dict[name][2]
company_of(name) == nifty50_dict[name][1]

arima_order(choice) ==
    IF choice = "ARIMA(1,1,1)" THEN <<1, 1, 1>> ELSE <<2, 1, 2>>

-----------------------------------------------------------------------------
(* Formatting *)

IsLeap(yr) == (yr % 4 = 0 /\ yr % 100 # 0) \/ yr % 400 = 0

DaysInMonth(yr, m) ==
    IF m = 2 THEN (IF IsLeap(yr) THEN 29 ELSE 28)
    ELSE IF m \in {4, 6, 9, 11} THEN 30 ELSE 31

RECURSIVE CivilFrom(_, _, _)
\* calendar date of the day `d` days after the first of month m of year yr
CivilFrom(yr, m, d) ==
    IF d < DaysInMonth(yr, m) THEN <<yr, m, d + 1>>
    ELSE IF m = 12 THEN CivilFrom(yr + 1, 1, d - DaysInMonth(yr, m))
    ELSE CivilFrom(yr, m + 1, d - DaysInMonth(yr, m))

\* Timestamp.strftime('%Y-%m-%d') of a day ordinal: <<year, month, day>>
strftime(date) == CivilFrom(2024, 1, date)

RECURSIVE Groups(_)
\* the comma-separated groups of three digits of a natural number
Groups(n) == IF n < 1000 THEN <<n>> ELSE Append(Groups(n \div 1000), n % 1000)

\* f"{x:,.2f}" of a price in hundredths: <<thousands groups, two decimals>>
FormatPrice(x) == << Groups(x \div 100), x % 100 >>

-----------------------------------------------------------------------------
(* Tables *)

\* prices, in hundredths, that appear in tables: 999.50, 1,234.56, 1,000,000.05
Prices == {99950, 123456, 100000005}

\* 2024-03-06, as a day ordinal: the date of the first row of a table
FirstDay == 65

NoFrame == [columns |-> <<>>, rows |-> <<>>, origin |-> <<>>]
NoFig == [traces |-> <<>>, title |-> <<>>]
NoPdf == <<>>
NoTable == <<>>
EmptyPage == [chart |-> FALSE, table |-> FALSE, button |-> FALSE,
              download |-> FALSE, errors |-> <<>>]
EmptyCache == << >>

Max(S) == CHOOSE m \in S : \A n \in S : n <= m
Range(f) == { f[i] : i \in DOMAIN f }

\* what yf.download(symbol, period=time_period) may return: a table indexed
\* by date, ascending, with a Close column, of 0..MaxLen rows (none when the
\* download fails); consecutive rows are 0..DaySpan days apart; the column
\* labels are plain, written <<label>>, or (label, ticker) pairs depending on
\* the yfinance version.  The closing prices differ row by row.
RECURSIVE IndexesOf(_)
IndexesOf(n) ==
    IF n = 0 THEN { <<>> }
    ELSE IF n = 1 THEN { << FirstDay >> }
    ELSE { Append(ix, ix[n - 1] + gap) : ix \in IndexesOf(n - 1), gap \in 0..DaySpan }

DateIndexes == UNION { IndexesOf(n) : n \in 0..MaxLen }

yf_download(symbol, time_period, ix, level, multi) ==
    [ index   |-> ix,
      columns |-> IF multi THEN << <<"Close", symbol>> >> ELSE << <<"Close">> >>,
      multi   |-> multi,
      cells   |-> [i \in 1..Len(ix) |-> << level + 1000 * i >>],
      request |-> <<symbol, time_period>> ]

Downloads(symbol, time_period) ==
    { yf_download(symbol, time_period, ix, 99950, multi) :
        ix \in DateIndexes, multi \in BOOLEAN }

\* the downloads of a session: nothing, or one row per calendar day,
\* half of MaxLen or MaxLen rows long, labelled as current yfinance does
FeedLengths == {0, MaxLen \div 2, MaxLen}

FeedDownloads(symbol, time_period) ==
    { yf_download(symbol, time_period, [i \in 1..n |-> FirstDay + (i - 1)], 99950, TRUE) :
        n \in FeedLengths }

\* get_live_data returning the rows newest first
get_live_data_Descending(symbol, time_period, data) ==
    LET n == Len(data.index)
    IN  [ columns |-> << <<"Date">>, <<"Close">> >>,
          rows    |-> [i \in 1..n |-> << data.index[n + 1 - i] >> \o data.cells[n + 1 - i]],
          origin  |-> data ]

\* lines 97-101: reset_index() turns the date index into the first column,
\* and (label, ticker) column labels are flattened to the label
get_live_data(symbol, time_period, data) ==
    LET cols == << (IF data.multi THEN <<"Date", "">> ELSE <<"Date">>) >> \o data.columns
    IN  [ columns |-> IF data.multi THEN [j \in 1..Len(cols) |-> << cols[j][1] >>] ELSE cols,
          rows    |-> [i \in 1..Len(data.index) |-> << data.index[i] >> \o data.cells[i]],
          origin  |-> data ]

\* df[name]: the column called `name`
Column(frame, name) ==
    LET j == CHOOSE j \in 1..Len(frame.columns) : frame.columns[j] = <<name>>
    IN  [i \in 1..Len(frame.rows) |-> frame.rows[i][j]]

\* series.iloc[-1]
iloc_last(series) == series[Len(series)]

\* df.empty
IsEmpty(frame) == Len(frame.rows) = 0

\* the DataFrame pd.DataFrame({'Date': dates, 'Predicted Price': values})
ForecastFrame(dates, values) ==
    [i \in 1..Len(values) |-> [Date |-> dates[i], Price |-> values[i]]]

\* the forecast tables create_pdf is applied to on its own: k rows on
\* consecutive days after `last`, prices rising by `drift` from `level`
RowTables ==
    { ForecastFrame([i \in 1..k |-> last + i], [i \in 1..k |-> level + i * drift]) :
        k \in 0..MaxRows, last \in {FirstDay - 20}, level \in {99950}, drift \in {0, 2505} }

\* lines 107-116: the figure with the one historical trace
FigureOf(frame, company) ==
    [ traces |-> << [name |-> "Actual Price", x |-> Column(frame, "Date"),
                     y |-> Column(frame, "Close")] >>,
      title  |-> <<"Historical Price: ", company>> ]

-----------------------------------------------------------------------------
(* create_pdf (src/app.py lines 52-92) *)

Helvetica(size) == <<"Helvetica", size>>
HelveticaBold(size) == <<"Helvetica-Bold", size>>

\* canvas.Canvas(buffer, pagesize=letter): no page finished, an empty page
NewCanvas == [pages |-> <<>>, cur |-> <<>>, font |-> Helvetica(12)]

setFont(c, f) == [c EXCEPT !.font = f]

\* p.drawString(x, y, text), called at source line `line`
drawString(c, line, x, yy, text) ==
    [c EXCEPT !.cur = Append(@, [line |-> line, op |-> "drawString",
                                 x |-> x, y |-> yy, font |-> c.font, text |-> text])]

\* p.drawImage(image, x, y, width, height)
drawImage(c, line, x, yy, w, h) ==
    [c EXCEPT !.cur = Append(@, [line |-> line, op |-> "drawImage",
                                 x |-> x, y |-> yy, font |-> c.font, text |-> <<w, h>>])]

\* p.line(x1, y1, x2, y2)
drawLine(c, line, x1, y1, x2) ==
    [c EXCEPT !.cur = Append(@, [line |-> line, op |-> "line",
                                 x |-> x1, y |-> y1, font |-> c.font, text |-> <<x2, y1>>])]

\* p.showPage(): the current page is finished and the graphics state
\* (the font with it) starts afresh
showPage(c) == [pages |-> Append(c.pages, c.cur), cur |-> <<>>, font |-> Helvetica(12)]

\* p.save(): a page with content that was not finished is finished first
save(c) == IF c.cur # <<>> THEN showPage(c).pages ELSE c.pages

\* lines 53-61: the canvas and the header
PdfHeaderOf(frame, ticker_name, model_name) ==
    LET c0 == setFont(NewCanvas, HelveticaBold(16))
        c1 == drawString(c0, 58, 100, 750, <<"Financial Analysis Report: ", ticker_name>>)
        c2 == setFont(c1, Helvetica(12))
        c3 == drawString(c2, 60, 100, 730, <<"Model Used: ", model_name>>)
    IN  drawString(c3, 61, 100, 715,
                   <<"Latest Closing Price: ", FormatPrice(iloc_last(Column(frame, "Close")))>>)

RasterOutcomes == {"ok", "to_image raises", "drawImage raises"}

\* the chart step without its except clause: the exception leaves create_pdf
PdfChartOf_Unguarded(c, outcome) ==
    IF outcome = "ok"
    THEN [raised |-> FALSE, canvas |-> drawImage(c, 66, 50, 380, 500, 250)]
    ELSE [raised |-> TRUE, canvas |-> c]

\* lines 64-68: the chart image, or the placeholder when rasterizing raises
PdfChartOf(c, outcome) ==
    IF outcome = "ok"
    THEN [raised |-> FALSE, canvas |-> drawImage(c, 66, 50, 380, 500, 250)]
    ELSE [raised |-> FALSE,
          canvas |-> drawString(c, 68, 100, 450, <<"Chart could not be rendered in PDF.">>)]

\* lines 71-80: the table heading, the column titles, the rule, the first cursor
PdfTableHeadOf(c) ==
    LET c1 == drawString(setFont(c, HelveticaBold(14)), 72, 100, 350,
                         <<"15-Day Forecast Table">>)
        c2 == setFont(c1, Helvetica(10))
        c3 == drawString(c2, 76, 120, TableTop, <<"Date">>)
        c4 == drawString(c3, 77, 250, TableTop, <<"Predicted Price">>)
    IN  [canvas |-> drawLine(c4, 78, 100, TableTop - 5, 500), y |-> TableTop - RowGap]

\* the page test against the bottom edge instead of the margin
PageIsFull_AtEdge(yy) == yy < 0

\* line 82: the table is too long for the page
PageIsFull(yy) == yy < MinMargin

\* the loop body with the row that meets a full page skipped
PdfRowOf_SkipOnBreak(c, yy, row) ==
    IF PageIsFull(yy)
    THEN [canvas |-> showPage(c), y |-> TopMargin]
    ELSE [canvas |-> drawString(drawString(c, 85, 120, yy, strftime(row.Date)),
                                86, 250, yy, FormatPrice(row.Price)),
          y |-> yy - RowStep]

\* lines 82-87: one iteration of the loop over forecast_df.iterrows()
PdfRowOf(c, yy, row) ==
    LET c1 == IF PageIsFull(yy) THEN showPage(c) ELSE c
        y1 == IF PageIsFull(yy) THEN TopMargin ELSE yy
        c2 == drawString(c1, 85, 120, y1, strftime(row.Date))
        c3 == drawString(c2, 86, 250, y1, FormatPrice(row.Price))
    IN  [canvas |-> c3, y |-> y1 - RowStep]

\* lines 89-92: the last page is finished and the buffer returned
PdfFinishOf(c) == save(showPage(c))

RECURSIVE PdfRowsOf(_, _, _, _)
\* lines 81-87: the loop, from row i on
PdfRowsOf(c, yy, table, i) ==
    IF i > Len(table) THEN c
    ELSE LET r == PdfRowOf(c, yy, table[i])
         IN  PdfRowsOf(r.canvas, r.y, table, i + 1)

\* lines 52-92: create_pdf as one function of its arguments and of what
\* rasterizing the figure does
create_pdf(frame, ticker_name, model_name, table, outcome) ==
    LET chart == PdfChartOf(PdfHeaderOf(frame, ticker_name, model_name), outcome)
        head  == PdfTableHeadOf(chart.canvas)
    IN  IF chart.raised THEN NoPdf
        ELSE PdfFinishOf(PdfRowsOf(head.canvas, head.y, table, 1))

pdf_unchanged ==
    UNCHANGED << selected_name, period, model_choice, clicked, cache, downloads,
                 runs, df, fig, fit, forecast_df, page, crashed >>

PdfHeader ==
    /\ pc = "pdf_header"
    /\ canvas' = PdfHeaderOf(df, company_of(selected_name), model_choice)
    /\ pc' = "pdf_chart"
    /\ UNCHANGED << y, it, pdf_data >>
    /\ pdf_unchanged

PdfChart ==
    /\ pc = "pdf_chart"
    /\ \E outcome \in RasterOutcomes :
         LET r == PdfChartOf(canvas, outcome)
         IN  /\ canvas' = r.canvas
             /\ pc' = IF r.raised THEN "except" ELSE "pdf_table"
    /\ UNCHANGED << y, it, pdf_data >>
    /\ pdf_unchanged

PdfTableHead ==
    /\ pc = "pdf_table"
    /\ LET r == PdfTableHeadOf(canvas)
       IN  canvas' = r.canvas /\ y' = r.y
    /\ it' = 0
    /\ pc' = "pdf_rows"
    /\ UNCHANGED pdf_data
    /\ pdf_unchanged

PdfRow ==
    /\ pc = "pdf_rows"
    /\ it < Len(forecast_df)
    /\ LET r == PdfRowOf(canvas, y, forecast_df[it + 1])
       IN  canvas' = r.canvas /\ y' = r.y
    /\ it' = it + 1
    /\ UNCHANGED << pc, pdf_data >>
    /\ pdf_unchanged

PdfFinish ==
    /\ pc = "pdf_rows"
    /\ it = Len(forecast_df)
    /\ pdf_data' = PdfFinishOf(canvas)
    /\ pc' = "returned"
    /\ UNCHANGED << canvas, y, it >>
    /\ pdf_unchanged

\* create_pdf applied to any report input: a one-row history, a company,
\* a model label and a forecast table of 0..MaxRows rows
InitPdf ==
    /\ selected_name \in Companies
    /\ period = "1y"
    /\ model_choice \in ModelChoices
    /\ clicked = TRUE
    /\ cache = EmptyCache
    /\ downloads = 0
    /\ runs = 0
    /\ pc = "pdf_header"
    /\ df \in { get_live_data(ticker_of(selected_name), period, raw) :
                   raw \in { r \in Downloads(ticker_of(selected_name), period) :
                               Len(r.index) = 1 } }
    /\ fig = FigureOf(df, company_of(selected_name))
    /\ fit = "fitted"
    /\ forecast_df \in RowTables
    /\ page = [EmptyPage EXCEPT !.chart = TRUE, !.table = TRUE, !.button = TRUE]
    /\ crashed = FALSE
    /\ canvas = NewCanvas
    /\ y = 0
    /\ it = 0
    /\ pdf_data = NoPdf

NextPdf == PdfHeader \/ PdfChart \/ PdfTableHead \/ PdfRow \/ PdfFinish

SpecPdf == InitPdf /\ [][NextPdf]_vars

-----------------------------------------------------------------------------
(* The script (src/app.py lines 42-49 and 103-157) *)

\* a cache keyed by the symbol alone
CacheKey_SymbolOnly(symbol, time_period) == <<symbol, "1y">>

\* line 95: st.cache_data keys a stored result by the call's arguments
CacheKey(symbol, time_period) == <<symbol, time_period>>

run_key == CacheKey(ticker_of(selected_name), period)

\* the branch taken without looking at the table
HasData_Unchecked(frame) == TRUE

\* line 105: the branch taken when the table has rows
HasData(frame) == ~IsEmpty(frame)

\* lines 125-128: what statsmodels can do with the series: the constructor,
\* the fit or the forecast raises, or `steps` point forecasts come back
ArimaOutcomes(series, order, steps) ==
    { [raised |-> w, values |-> <<>>] :
        w \in {"ARIMA raised", "fit raised", "forecast raised"} }
    \cup
    { [raised |-> "no", values |-> [i \in 1..steps |-> iloc_last(series) + i * drift]] :
        drift \in {0, 2505} }

\* lines 131-132: the dates of the forecast
last_date(frame) == Max(Range(Column(frame, "Date")))

\* the dates counted from range(0, steps)
future_dates_FromZero(frame, steps) == [i \in 1..steps |-> last_date(frame) + i - 1]

future_dates(frame, steps) == [i \in 1..steps |-> last_date(frame) + i]

\* lines 125-141: the body of the try block up to the table
ForecastStage(frame, order, out) ==
    IF out.raised # "no"
    THEN [fit |-> out.raised, raised |-> TRUE, table |-> NoTable]
    ELSE [fit |-> "fitted", raised |-> FALSE,
          table |-> ForecastFrame(future_dates(frame, forecast_steps), out.values)]

\* the try block without a handler: the exception ends the script
ExceptHandler_Missing(pg, what) == [page |-> pg, crashed |-> TRUE]

\* lines 153-154: the handler of the try block
ExceptHandler(pg, what) ==
    [page |-> [pg EXCEPT !.errors = Append(@, <<"Model Error: ", what>>)],
     crashed |-> FALSE]

\* a new execution of the script: the page and the locals start afresh
Rerun(click) ==
    /\ runs < MaxRuns
    /\ runs' = runs + 1
    /\ clicked' = click
    /\ pc' = "load"
    /\ df' = NoFrame
    /\ fig' = NoFig
    /\ fit' = "none"
    /\ forecast_df' = NoTable
    /\ page' = EmptyPage
    /\ canvas' = NewCanvas
    /\ y' = 0
    /\ it' = 0
    /\ pdf_data' = NoPdf
    /\ UNCHANGED << cache, downloads, crashed >>

Idle == pc = "idle" /\ ~crashed

\* line 42: another company is chosen
ChooseCompany ==
    /\ Idle
    /\ \E name \in Companies \ {selected_name} : selected_name' = name
    /\ UNCHANGED << period, model_choice >>
    /\ Rerun(FALSE)

\* line 44: another history period is chosen
ChoosePeriod ==
    /\ Idle
    /\ \E per \in Periods \ {period} : period' = per
    /\ UNCHANGED << selected_name, model_choice >>
    /\ Rerun(FALSE)

\* line 48: the other ARIMA order is chosen
ChooseModel ==
    /\ Idle
    /\ \E choice \in ModelChoices \ {model_choice} : model_choice' = choice
    /\ UNCHANGED << selected_name, period >>
    /\ Rerun(FALSE)

\* line 144: the report button on the page is pressed
ClickReport ==
    /\ Idle
    /\ page.button
    /\ UNCHANGED << selected_name, period, model_choice >>
    /\ Rerun(TRUE)

\* line 146: the download button on the page is pressed
ClickDownload ==
    /\ Idle
    /\ page.download
    /\ UNCHANGED << selected_name, period, model_choice >>
    /\ Rerun(FALSE)

script_unchanged ==
    UNCHANGED << selected_name, period, model_choice, clicked, runs,
                 canvas, y, it, pdf_data >>

\* line 103, the arguments are in the cache: the stored table is returned
LoadCached ==
    /\ pc = "load"
    /\ run_key \in DOMAIN cache
    /\ df' = cache[run_key]
    /\ pc' = "loaded"
    /\ UNCHANGED << cache, downloads, fig, fit, forecast_df, page, crashed >>
    /\ script_unchanged

\* line 103, the arguments are not in the cache: get_live_data runs and its
\* result is stored
Fetch(feed) ==
    /\ pc = "load"
    /\ run_key \notin DOMAIN cache
    /\ \E data \in feed :
         LET frame == get_live_data(ticker_of(selected_name), period, data)
         IN  /\ df' = frame
             /\ cache' = [k \in DOMAIN cache \cup {run_key} |->
                            IF k = run_key THEN frame ELSE cache[k]]
    /\ downloads' = downloads + 1
    /\ pc' = "loaded"
    /\ UNCHANGED << fig, fit, forecast_df, page, crashed >>
    /\ script_unchanged

FetchFeed == Fetch(FeedDownloads(ticker_of(selected_name), period))

FetchAny == Fetch(Downloads(ticker_of(selected_name), period))

\* lines 105-117: the chart of the history
Chart ==
    /\ pc = "loaded"
    /\ HasData(df)
    /\ fig' = FigureOf(df, company_of(selected_name))
    /\ page' = [page EXCEPT !.chart = TRUE]
    /\ pc' = "forecast"
    /\ UNCHANGED << cache, downloads, df, fit, forecast_df, crashed >>
    /\ script_unchanged

\* lines 156-157: no data
EmptyData ==
    /\ pc = "loaded"
    /\ ~HasData(df)
    /\ page' = [page EXCEPT !.errors = Append(@, <<"Failed to retrieve data.">>)]
    /\ pc' = "idle"
    /\ UNCHANGED << cache, downloads, df, fig, fit, forecast_df, crashed >>
    /\ script_unchanged

\* lines 123-141: the model is built and fitted, the table shown
Forecast ==
    /\ pc = "forecast"
    /\ \E out \in ArimaOutcomes(Column(df, "Close"), arima_order(model_choice),
                                forecast_steps) :
         LET r == ForecastStage(df, arima_order(model_choice), out)
         IN  /\ fit' = r.fit
             /\ forecast_df' = r.table
             /\ page' = IF r.raised THEN page ELSE [page EXCEPT !.table = TRUE]
             /\ pc' = IF r.raised THEN "except" ELSE "button"
    /\ UNCHANGED << cache, downloads, df, fig, crashed >>
    /\ script_unchanged

\* line 144: the report button; pressed, it starts create_pdf
Button ==
    /\ pc = "button"
    /\ page' = [page EXCEPT !.button = TRUE]
    /\ pc' = IF clicked THEN "pdf_header" ELSE "idle"
    /\ UNCHANGED << cache, downloads, df, fig, fit, forecast_df, crashed >>
    /\ script_unchanged

\* lines 146-151: the download button for the finished report
DownloadButton ==
    /\ pc = "returned"
    /\ page' = [page EXCEPT !.download = TRUE]
    /\ pc' = "idle"
    /\ UNCHANGED << cache, downloads, df, fig, fit, forecast_df, crashed >>
    /\ script_unchanged

\* lines 153-154: an exception raised in the try block
Except ==
    /\ pc = "except"
    /\ LET r == ExceptHandler(page, fit)
       IN  page' = r.page /\ crashed' = r.crashed
    /\ pc' = "idle"
    /\ UNCHANGED << cache, downloads, df, fig, fit, forecast_df >>
    /\ script_unchanged

\* the first execution, with the widgets at their defaults
Init ==
    /\ selected_name = 1
    /\ period = "1y"
    /\ model_choice = "ARIMA(1,1,1)"
    /\ clicked = FALSE
    /\ cache = EmptyCache
    /\ downloads = 0
    /\ runs = 1
    /\ pc = "load"
    /\ df = NoFrame
    /\ fig = NoFig
    /\ fit = "none"
    /\ forecast_df = NoTable
    /\ page = EmptyPage
    /\ crashed = FALSE
    /\ canvas = NewCanvas
    /\ y = 0
    /\ it = 0
    /\ pdf_data = NoPdf

Next ==
    \/ ChooseCompany \/ ChoosePeriod \/ ChooseModel \/ ClickReport \/ ClickDownload
    \/ LoadCached \/ FetchFeed \/ Chart \/ EmptyData \/ Forecast \/ Button
    \/ PdfHeader \/ PdfChart \/ PdfTableHead \/ PdfRow \/ PdfFinish
    \/ DownloadButton \/ Except

Spec == Init /\ [][Next]_vars

-----------------------------------------------------------------------------
(* One execution of the script, on any table yf.download may return *)

\* an execution with either ARIMA order chosen; one started by the report
\* button finds in the cache the table of the execution that showed the
\* button
InitRun ==
    /\ selected_name = 1
    /\ period = "1y"
    /\ model_choice \in ModelChoices
    /\ clicked \in BOOLEAN
    /\ IF clicked
       THEN \E data \in Downloads(ticker_of(selected_name), period) :
              /\ Len(data.index) > 0
              /\ cache = [k \in {run_key} |->
                            get_live_data(ticker_of(selected_name), period, data)]
       ELSE cache = EmptyCache
    /\ downloads = Cardinality(DOMAIN cache)
    /\ runs = 1 + Cardinality(DOMAIN cache)
    /\ pc = "load"
    /\ df = NoFrame
    /\ fig = NoFig
    /\ fit = "none"
    /\ forecast_df = NoTable
    /\ page = EmptyPage
    /\ crashed = FALSE
    /\ canvas = NewCanvas
    /\ y = 0
    /\ it = 0
    /\ pdf_data = NoPdf

NextRun ==
    \/ LoadCached \/ FetchAny \/ Chart \/ EmptyData \/ Forecast \/ Button
    \/ PdfHeader \/ PdfChart \/ PdfTableHead \/ PdfRow \/ PdfFinish
    \/ DownloadButton \/ Except

SpecRun == InitRun /\ [][NextRun]_vars

-----------------------------------------------------------------------------
(* Reading a report *)

RECURSIVE Flatten(_)
\* the drawing operations of a document, page after page
Flatten(pages) ==
    IF pages = <<>> THEN <<>> ELSE Head(pages) \o Flatten(Tail(pages))

IsRowDate(op) == op.line = 85
IsRowPrice(op) == op.line = 86
IsRowEntry(op) == op.line \in {85, 86}
IsImage(op) == op.line = 66
IsPlaceholder(op) == op.line = 68
IsNotChart(op) == op.line \notin {66, 68}
IsHeaderLine(op) == op.line \in {58, 60, 61}

WithoutChart(pages) == [p \in 1..Len(pages) |-> SelectSeq(pages[p], IsNotChart)]

InCreatePdf == pc \in {"pdf_rows", "returned"}

\* the pages drawn so far, the unfinished one last
PagesSoFar == IF pc = "returned" THEN pdf_data ELSE Append(canvas.pages, canvas.cur)

RowsDone == IF pc = "returned" THEN Len(forecast_df) ELSE it

-----------------------------------------------------------------------------
(* Claims about create_pdf, checked under SpecPdf *)

\* C1: create_pdf never drops a table row.  While the loop over forecast_df
\* runs, the document holds one date string and one value string for each
\* row yielded so far, in table order, and the returned document holds them
\* for all k rows, on however many pages that takes.
C1_NoRowDropped ==
    InCreatePdf =>
        LET entries == SelectSeq(Flatten(PagesSoFar), IsRowEntry)
        IN  /\ Len(entries) = 2 * RowsDone
            /\ \A i \in 1..RowsDone :
                 /\ IsRowDate(entries[2 * i - 1])
                 /\ entries[2 * i - 1].text = strftime(forecast_df[i].Date)
                 /\ IsRowPrice(entries[2 * i])
                 /\ entries[2 * i].text = FormatPrice(forecast_df[i].Price)
                 /\ entries[2 * i].y = entries[2 * i - 1].y

\* a report of more rows than two pages hold has been returned
C1_Witness ==
    /\ pc = "returned"
    /\ Len(forecast_df) = 66
    /\ Len(pdf_data) = 3
    /\ Len(SelectSeq(Flatten(pdf_data), IsRowDate)) = 66

\* C10: the page-overflow policy.  Every row is drawn with the cursor
\* between 50 and 750; rows of one page are 15 apart; a page other than the
\* first starts with a row at 750, so no page is without content; a page is
\* left only when the cursor after its last row is below 50; a table of at
\* most 15 rows stays on the first page.
C10_PagePolicy ==
    InCreatePdf =>
        LET pages == PagesSoFar
        IN  /\ \A p \in 1..Len(pages) :
                 LET rows == SelectSeq(pages[p], IsRowDate)
                 IN  /\ pages[p] # <<>>
                     /\ \A j \in 1..Len(rows) : rows[j].y >= 50 /\ rows[j].y <= 750
                     /\ \A j \in 1..(Len(rows) - 1) : rows[j + 1].y = rows[j].y - 15
                     /\ p > 1 => Len(rows) >= 1 /\ rows[1].y = 750
                     /\ p = 1 /\ Len(rows) >= 1 => rows[1].y = 310
                     /\ p < Len(pages) => Len(rows) >= 1 /\ rows[Len(rows)].y - 15 < 50
            /\ Len(forecast_df) <= 15 => Len(pages) = 1

\* a second page break has happened: the third page starts at the top margin
C10_Witness ==
    /\ pc = "returned"
    /\ Len(pdf_data) = 3
    /\ SelectSeq(pdf_data[3], IsRowDate)[1].y = 750
    /\ Len(SelectSeq(pdf_data[1], IsRowDate)) = 18
    /\ Len(SelectSeq(pdf_data[2], IsRowDate)) = 47

\* C5: a failure to rasterize the chart does not abort create_pdf.  No
\* exception leaves the chart step, and a report returned without the image
\* holds the placeholder text on its first page and otherwise exactly what
\* the report holds when rasterizing succeeds: the same header lines and
\* the same table rows.
C5_RasterFailureDegrades ==
    /\ pc # "except"
    /\ pc = "returned" /\ SelectSeq(Flatten(pdf_data), IsImage) = <<>> =>
         /\ Len(SelectSeq(pdf_data[1], IsPlaceholder)) = 1
         /\ Len(SelectSeq(Flatten(pdf_data), IsHeaderLine)) = 3
         /\ Len(SelectSeq(Flatten(pdf_data), IsRowDate)) = Len(forecast_df)
         /\ WithoutChart(pdf_data) =
              WithoutChart(create_pdf(df, company_of(selected_name), model_choice,
                                      forecast_df, "ok"))

\* a multi-page report was returned with the placeholder in place of the image
C5_Witness ==
    /\ pc = "returned"
    /\ SelectSeq(Flatten(pdf_data), IsImage) = <<>>
    /\ SelectSeq(pdf_data[1], IsPlaceholder) # <<>>
    /\ Len(forecast_df) > 18

-----------------------------------------------------------------------------
(* Claims about one execution, checked under SpecRun *)

ForecastOver == pc \notin {"load", "loaded", "forecast"} /\ HasData(df)

FitAttempted == fit \in {"fit raised", "forecast raised", "fitted"}

ForecastFailed == fit \in {"ARIMA raised", "fit raised", "forecast raised"}

HistoryDates == Range(Column(df, "Date"))

\* the p + d + q + 1 observations an order (p, d, q) is said to need
MinObservations(order) == order[1] + order[2] + order[3] + 1

\* C2: when the forecast stage succeeds, the forecast table has exactly 15
\* entries, entry i is dated i calendar days after the latest historical
\* date, so the dates increase strictly and are later than every historical
\* date; a history of 5 points ending 2024-03-10 gives the dates 2024-03-11
\* to 2024-03-25.
C2_ForecastDates ==
    fit = "fitted" =>
        /\ Len(forecast_df) = 15
        /\ \A i \in 1..Len(forecast_df) :
             /\ forecast_df[i].Date = Max(HistoryDates) + i
             /\ \A d \in HistoryDates : forecast_df[i].Date > d
        /\ \A i \in 1..(Len(forecast_df) - 1) :
             forecast_df[i].Date < forecast_df[i + 1].Date
        /\ Len(df.rows) = 5 /\ strftime(Max(HistoryDates)) = <<2024, 3, 10>> =>
             \A i \in 1..Len(forecast_df) :
                 strftime(forecast_df[i].Date) = <<2024, 3, 10 + i>>

\* the scenario: 5 points ending 2024-03-10, ARIMA(1,1,1), a forecast made
C2_Witness ==
    /\ fit = "fitted"
    /\ pc = "button"
    /\ model_choice = "ARIMA(1,1,1)"
    /\ Len(df.rows) = 5
    /\ strftime(Max(HistoryDates)) = <<2024, 3, 10>>
    /\ strftime(forecast_df[15].Date) = <<2024, 3, 25>>

\* C7: a series of fewer than p+d+q+1 observations makes the forecast stage
\* fail fast: an error is reported and no model fit is attempted.
C7_FailsFastOnShortSeries ==
    ForecastOver /\ Len(df.rows) < MinObservations(arima_order(model_choice)) =>
        /\ ~FitAttempted
        /\ pc = "idle" => page.errors # <<>>

-----------------------------------------------------------------------------
(* Claims about a session, checked under Spec *)

C4_LoadFailureHalts ==
    pc # "load" /\ IsEmpty(df) =>
        /\ pc \in {"loaded", "idle"}
        /\ fig = NoFig
        /\ ~page.chart
        /\ fit = "none"
        /\ forecast_df = NoTable
        /\ ~page.table
        /\ ~page.button
        /\ ~page.download
        /\ pdf_data = NoPdf
        /\ pc = "idle" => page.errors = << <<"Failed to retrieve data.">> >>

\* the script has ended on an empty table
C4_Witness ==
    /\ pc = "idle"
    /\ IsEmpty(df)
    /\ page.errors = << <<"Failed to retrieve data.">> >>

\* C6: after a failure of the forecast stage the report can still be had:
\* the script ends with the report button on the page.
C6_ReportAfterForecastFailure ==
    pc = "idle" /\ ForecastFailed => page.button

\* C9: the memoized fetch is keyed by (ticker, period).  Every stored table
\* is the answer to the download for its own key, there was one download
\* for each key, and once loaded the table the execution works on is the
\* one stored for, and downloaded for, its own ticker and period.
C9_CacheKeyedByTickerAndPeriod ==
    /\ \A k \in DOMAIN cache : cache[k].origin.request = k
    /\ downloads = Cardinality(DOMAIN cache)
    /\ pc # "load" =>
         /\ <<ticker_of(selected_name), period>> \in DOMAIN cache
         /\ df = cache[<<ticker_of(selected_name), period>>]
         /\ df.origin.request = <<ticker_of(selected_name), period>>

\* the third execution returned to the first key and was served from the
\* cache, which also holds the table of another key
C9_Witness ==
    /\ pc = "loaded"
    /\ runs = 3
    /\ ~clicked
    /\ downloads = 2
    /\ Cardinality(DOMAIN cache) = 2
    /\ df.origin.request = <<ticker_of(selected_name), period>>

====
